---------------------------- MODULE Spec2Model ----------------------------
(***************************************************************************)
(* A model of metaphy/bilibili-service:                                    *)
(*   src/parse_dash.py   _select_best, _rep_to_urls, _download, parse_dash *)
(*   src/spider.py       getMediaData, main                                *)
(*                                                                         *)
(* Python values are written as follows.  A dict is a function whose       *)
(* DOMAIN is the set of keys present.  A JSON value whose Python type the  *)
(* code tests with isinstance is a one-field record naming the type:       *)
(* [list |-> <<..>>], [dict |-> d], [str |-> "..."], [other |-> 0].        *)
(* A field the code only reads for its truth value and appends (baseUrl,   *)
(* media, url) is a plain string, "" standing for every falsy value.       *)
(* A path is a pair <<directory, file name>>.                              *)
(***************************************************************************)
EXTENDS Integers, Sequences, FiniteSets, TLC

\* ------------------------------------------------------------- bounds
\* longest rendition list given to _select_best
MaxReps == 3
\* largest bandwidth figure of a rendition
MaxBw == 2
\* longest segment list given to _rep_to_urls
MaxEntries == 2
\* most URLs one track resolves to in an assembly
MaxSegs == 3

VARIABLES
    \* ---- _select_best called on its own
    rep_list,      \* the argument
    rep_list0,     \* the argument as it was when the call started
    selected,      \* <<>> before the call, then [ret |-> r] or [raise |-> e]
    \* ---- _rep_to_urls called on its own
    rep,           \* the argument
    shape,         \* how rep was spelled: container, wrapper, entry kinds
    resolved,      \* <<>> before the call, then [ret |-> urls]
    \* ---- one caller running parse_dash or spider.main, twice at most
    prog,          \* "parse_dash" or "spider"
    call,          \* "first" or "second"
    dash,          \* parse_dash argument: the dash dict
    bvid,          \* the identifier
    out_dir,       \* parse_dash argument out_dir
    output_name,   \* parse_dash argument output_name, "" for None
    url,           \* getMediaData argument: {"video": .., "audio": ..}
    pc,            \* where the running call is
    loc,           \* the local variables of the running call
    result,        \* <<>> while running, then [ret |-> v] or [raise |-> e]
    dirs,          \* the directories that exist
    files,         \* the files that exist, as paths
    existed,       \* whether the output file existed when the call started
    log,           \* the external calls of the running call, in order
    \* ---- two parse_dash calls running at the same time
    me,            \* which of the two calls is the running one, 1 or 2
    other          \* pc, loc, result and log of the call that is waiting,
                   \* <<>> when there is one call only

selectVars == <<rep_list, rep_list0, selected>>
resolveVars == <<rep, shape, resolved>>
inputVars == <<prog, dash, bvid, out_dir, output_name, url>>
callVars == <<call, pc, loc, result, dirs, files, existed, log>>
schedVars == <<me, other>>
vars == <<selectVars, resolveVars, inputVars, callVars, schedVars>>

\* ------------------------------------------------------------- Python
\* d.get(k) for a string-valued key read only for its truth value
StrGet(d, k) == IF k \in DOMAIN d THEN d[k] ELSE ""

\* bool(v) of a typed JSON value; None is [none |-> TRUE]
None == [none |-> TRUE]

Truthy(v) ==
    IF "list" \in DOMAIN v THEN v.list # <<>>
    ELSE IF "dict" \in DOMAIN v THEN DOMAIN v.dict # {}
    ELSE IF "str" \in DOMAIN v THEN v.str # ""
    ELSE FALSE

\* d.get(k) for a key holding a typed JSON value
Get(d, k) == IF k \in DOMAIN d THEN d[k] ELSE None

\* a or b
PyOr(a, b) == IF Truthy(a) THEN a ELSE b

\* ------------------------------------------------------------- _select_best
\* the filter of line 57 written "if r.get(\"bandwidth\")": a bandwidth of 0 is dropped
RepWithBwTruthy(reps) == SelectSeq(reps, LAMBDA r : "bandwidth" \in DOMAIN r /\ r.bandwidth # 0)

\* [r for r in rep_list if r.get("bandwidth") is not None]
RepWithBw(reps) == SelectSeq(reps, LAMBDA r : "bandwidth" \in DOMAIN r)

\* key=lambda r: int(r.get("bandwidth", 0)); bandwidth is an integer already
BwKey(r) == IF "bandwidth" \in DOMAIN r THEN r.bandwidth ELSE 0

\* max(iterable, key=...): the running best is replaced only by a strictly
\* larger key, so the first of several equal maxima is returned
RECURSIVE PyMaxFrom(_, _, _)
PyMaxFrom(s, i, best) ==
    IF i > Len(s) THEN best
    ELSE PyMaxFrom(s, i + 1, IF BwKey(s[i]) > BwKey(best) THEN s[i] ELSE best)

PyMax(s) == PyMaxFrom(s, 2, s[1])

_select_best(reps) ==
    IF reps = <<>> THEN [raise |-> "ValueError: No representations available"]
    ELSE IF RepWithBw(reps) # <<>> THEN [ret |-> PyMax(RepWithBw(reps))]
    ELSE [ret |-> reps[1]]

\* ------------------------------------------------------------- _rep_to_urls
\* line 92 reading only the key "media" of a dict entry
EntryUrlsMediaOnly(s) ==
    IF "dict" \in DOMAIN s
    THEN IF StrGet(s.dict, "media") # "" THEN <<s.dict["media"]>> ELSE <<>>
    ELSE IF "str" \in DOMAIN s THEN <<s.str>>
    ELSE <<>>

\* for s in candidates: one URL of a dict entry, a str entry itself
EntryUrls(s) ==
    IF "dict" \in DOMAIN s
    THEN LET m == StrGet(s.dict, "media")
             u == StrGet(s.dict, "url")
             b == StrGet(s.dict, "baseUrl")
             found == IF m # "" THEN m ELSE IF u # "" THEN u ELSE b
         IN  IF found # "" THEN <<found>> ELSE <<>>
    ELSE IF "str" \in DOMAIN s THEN <<s.str>>
    ELSE <<>>

RECURSIVE SegUrls(_)
SegUrls(candidates) ==
    IF candidates = <<>> THEN <<>>
    ELSE EntryUrls(Head(candidates)) \o SegUrls(Tail(candidates))

\* the wrapped array of a SegmentList object
Candidates(seglist) ==
    IF "dict" \in DOMAIN seglist
    THEN LET d == seglist.dict
             a == IF "SegmentURL" \in DOMAIN d THEN d["SegmentURL"] ELSE <<>>
             b == IF "segmentURL" \in DOMAIN d THEN d["segmentURL"] ELSE <<>>
             c == IF "segments" \in DOMAIN d THEN d["segments"] ELSE <<>>
         IN  IF a # <<>> THEN a ELSE IF b # <<>> THEN b ELSE c
    ELSE seglist.list

\* for e in rep.get("baseUrls")
BaseUrlsEntry(e) ==
    IF "dict" \in DOMAIN e
    THEN IF StrGet(e.dict, "baseUrl") # "" THEN <<e.dict["baseUrl"]>> ELSE <<>>
    ELSE IF "str" \in DOMAIN e THEN <<e.str>>
    ELSE <<>>

RECURSIVE BaseUrlsUrls(_)
BaseUrlsUrls(es) ==
    IF es = <<>> THEN <<>>
    ELSE BaseUrlsEntry(Head(es)) \o BaseUrlsUrls(Tail(es))

\* the fallback of lines 98-103, taken only when no URL was found so far
BaseUrlsFallback(r, urls) ==
    IF urls = <<>> /\ "baseUrls" \in DOMAIN r /\ r["baseUrls"] # <<>>
    THEN BaseUrlsUrls(r["baseUrls"])
    ELSE urls

\* the segment-list branch of lines 82-96
SeglistOf(r) ==
    PyOr(Get(r, "SegmentList"),
         PyOr(Get(r, "segmentList"), PyOr(Get(r, "segments"), Get(r, "segment"))))

SeglistUrls(r) ==
    LET seglist == SeglistOf(r)
    IN  IF Truthy(seglist) THEN SegUrls(Candidates(seglist)) ELSE <<>>

\* _rep_to_urls with the segment list tried before the direct URL of lines 77-79
RepToUrlsSegmentsFirst(r) ==
    IF DOMAIN r = {} THEN <<>>
    ELSE IF SeglistUrls(r) # <<>> THEN SeglistUrls(r)
    ELSE IF StrGet(r, "baseUrl") # "" THEN <<r["baseUrl"]>>
    ELSE BaseUrlsFallback(r, <<>>)

_rep_to_urls(r) ==
    IF DOMAIN r = {} THEN <<>>
    ELSE IF StrGet(r, "baseUrl") # "" THEN <<r["baseUrl"]>>
    ELSE BaseUrlsFallback(r, SeglistUrls(r))

\* ------------------------------------------------------------- the variables at rest
NoSelect == rep_list = <<>> /\ rep_list0 = <<>> /\ selected = <<>>

NoResolve == rep = <<>> /\ shape = <<>> /\ resolved = <<>>

\* one call at a time
NoOther == me = 1 /\ other = <<>>

NoCall ==
    /\ prog = "none" /\ call = "first" /\ dash = <<>> /\ bvid = "" /\ out_dir = ""
    /\ output_name = "" /\ url = <<>> /\ pc = "idle" /\ loc = <<>> /\ result = <<>>
    /\ dirs = {} /\ files = {} /\ existed = FALSE /\ log = <<>>
    /\ NoOther

\* ------------------------------------------------------------- _select_best on its own
\* a rendition: its position as "id", and a bandwidth unless b < 0
Rendition(i, b) == IF b < 0 THEN [id |-> i] ELSE [id |-> i, bandwidth |-> b]

\* every rendition list of at most MaxReps entries, bandwidths 0..MaxBw or none
SelectInputs ==
    UNION {{[i \in 1..n |-> Rendition(i, f[i])] : f \in [1..n -> (-1)..MaxBw]} : n \in 0..MaxReps}

InitSelect ==
    /\ rep_list \in SelectInputs
    /\ rep_list0 = rep_list
    /\ selected = <<>>
    /\ NoResolve /\ NoCall

\* a call of _select_best(rep_list): it builds a new list and assigns to no
\* element of its argument
SelectBest ==
    /\ selected = <<>>
    /\ selected' = _select_best(rep_list)
    /\ UNCHANGED <<rep_list, rep_list0, resolveVars, inputVars, callVars, schedVars>>

NextSelect == SelectBest

SpecSelect == InitSelect /\ [][NextSelect]_vars

\* ------------------------------------------------------------- _rep_to_urls on its own
\* the spellings lines 82, 86 and 92 accept
Containers == {"SegmentList", "segmentList", "segments", "segment"}

Wrappers == {"list", "SegmentURL", "segmentURL", "segments"}

\* what an entry of the list is: a dict carrying its URL under one of three
\* keys, a bare string, a dict with no URL, or a value of another type
UrlKinds == {"media", "url", "baseUrl", "str"}

EntryKinds == UrlKinds \cup {"nourl", "other"}

\* the URL of the i-th segment
SegUrl(i) == "s" \o ToString(i)

Entry(i, kind) ==
    IF kind \in {"media", "url", "baseUrl"} THEN [dict |-> (kind :> SegUrl(i))]
    ELSE IF kind = "str" THEN [str |-> SegUrl(i)]
    ELSE IF kind = "nourl" THEN [dict |-> ("index" :> ToString(i))]
    ELSE [other |-> i]

Entries(kinds) == [i \in 1..Len(kinds) |-> Entry(i, kinds[i])]

Wrapped(wrapper, entries) ==
    IF wrapper = "list" THEN [list |-> entries] ELSE [dict |-> (wrapper :> entries)]

\* the rendition dict a shape describes
RepOf(sh) ==
    (IF sh.baseUrl = "absent" THEN <<>>
     ELSE "baseUrl" :> (IF sh.baseUrl = "empty" THEN "" ELSE "u0"))
    @@ (IF sh.container = "none" THEN <<>>
        ELSE sh.container :> Wrapped(sh.wrapper, Entries(sh.kinds)))
    @@ (IF sh.baseUrls = "absent" THEN <<>>
        ELSE IF sh.baseUrls = "strs" THEN "baseUrls" :> <<[str |-> "b1"], [str |-> "b2"]>>
        ELSE "baseUrls" :> <<[dict |-> ("baseUrl" :> "b1")], [dict |-> ("id" :> "b2")]>>)

KindSeqs == UNION {[1..n -> EntryKinds] : n \in 0..MaxEntries}

Shapes ==
    {[baseUrl |-> b, container |-> "none", wrapper |-> "list", kinds |-> <<>>, baseUrls |-> l] :
        b \in {"absent", "empty", "set"}, l \in {"absent", "strs", "dicts"}}
    \cup
    {[baseUrl |-> b, container |-> c, wrapper |-> w, kinds |-> k, baseUrls |-> l] :
        b \in {"absent", "empty", "set"}, c \in Containers, w \in Wrappers,
        k \in KindSeqs, l \in {"absent", "strs", "dicts"}}

InitResolve ==
    /\ shape \in Shapes
    /\ rep = RepOf(shape)
    /\ resolved = <<>>
    /\ NoSelect /\ NoCall

\* a call of _rep_to_urls(rep)
RepToUrls ==
    /\ shape # <<>> /\ resolved = <<>>
    /\ resolved' = [ret |-> _rep_to_urls(rep)]
    /\ UNCHANGED <<rep, shape, selectVars, inputVars, callVars, schedVars>>

NextResolve == RepToUrls

SpecResolve == InitResolve /\ [][NextResolve]_vars

\* ------------------------------------------------------------- the file system and the tools
\* the names tempfile.mkdtemp may give a directory; it gives one that does
\* not exist
TmpNames == {"tmp1", "tmp2"}

\* s.get(..) then raise_for_status(), or requests.get(..): the response has
\* a success status, a non-success status, or the transport fails
Responses == {"ok", "status", "transport"}

\* the exit status of an ffmpeg run
ExitCodes == {0, 1}

\* f"{i}", the index without padding
Unpadded(i) == ToString(i)

\* f"{i:03d}"
Pad3(i) ==
    IF i < 10 THEN "00" \o ToString(i)
    ELSE IF i < 100 THEN "0" \o ToString(i)
    ELSE ToString(i)

\* the files a failed ffmpeg run may leave: its output written in part or
\* not at all
AfterFailedRun(fs, out) == {fs, fs \cup {out}}

\* dash.get(k) for a key holding a list; None and [] are both falsy
ListGet(d, k) == IF k \in DOMAIN d THEN d[k] ELSE <<>>

\* no path yet (None)
NoPath == <<>>

\* ------------------------------------------------------------- parse_dash
PdLocals ==
    [output_path |-> NoPath, video_reps |-> <<>>, audio_reps |-> <<>>,
     video |-> <<>>, audio |-> <<>>, video_urls |-> <<>>, audio_urls |-> <<>>,
     tmpdir |-> "", vfile |-> NoPath, afile |-> NoPath,
     out_name |-> "", parts |-> <<>>, pending |-> <<>>]

\* the test of line 138 written with "and"
MissingBothTracks(v, a) == v = <<>> /\ a = <<>>

\* line 138
MissingTrack(v, a) == v = <<>> \/ a = <<>>

\* lines 122-139: the checks of the arguments, with the output directory
\* made between the two
pd_Validate ==
    /\ prog = "parse_dash" /\ pc = "start"
    /\ IF DOMAIN dash = {}
       THEN /\ result' = [raise |-> "ValueError: Empty dash object"]
            /\ pc' = "done"
            /\ UNCHANGED <<loc, dirs>>
       ELSE LET name == IF output_name # "" THEN output_name ELSE bvid \o "_new.mp4"
                v1 == IF ListGet(dash, "video") # <<>> THEN ListGet(dash, "video")
                      ELSE ListGet(dash, "videos")
                a1 == IF ListGet(dash, "audio") # <<>> THEN ListGet(dash, "audio")
                      ELSE ListGet(dash, "audios")
                v2 == IF v1 = <<>> /\ ListGet(dash, "videos") # <<>>
                      THEN ListGet(dash, "videos") ELSE v1
                a2 == IF a1 = <<>> /\ ListGet(dash, "audios") # <<>>
                      THEN ListGet(dash, "audios") ELSE a1
            IN  /\ dirs' = dirs \cup {out_dir}
                /\ loc' = [loc EXCEPT !.output_path = <<out_dir, name>>,
                                      !.video_reps = v2, !.audio_reps = a2]
                /\ IF MissingTrack(v2, a2)
                   THEN /\ result' = [raise |-> "ValueError: Dash object missing video or audio arrays"]
                        /\ pc' = "done"
                   ELSE /\ pc' = "select"
                        /\ UNCHANGED result
    /\ UNCHANGED <<call, files, existed, log, selectVars, resolveVars, inputVars, schedVars>>

\* lines 141-142
pd_Select ==
    /\ prog = "parse_dash" /\ pc = "select"
    /\ LET v == _select_best(loc.video_reps)
           a == _select_best(loc.audio_reps)
       IN  IF "raise" \in DOMAIN v \/ "raise" \in DOMAIN a
           THEN /\ result' = IF "raise" \in DOMAIN v THEN v ELSE a
                /\ pc' = "done"
                /\ UNCHANGED loc
           ELSE /\ loc' = [loc EXCEPT !.video = v.ret, !.audio = a.ret]
                /\ pc' = "resolve"
                /\ UNCHANGED result
    /\ UNCHANGED <<call, dirs, files, existed, log, selectVars, resolveVars, inputVars, schedVars>>

\* lines 144-145
pd_Resolve ==
    /\ prog = "parse_dash" /\ pc = "resolve"
    /\ loc' = [loc EXCEPT !.video_urls = _rep_to_urls(loc.video),
                          !.audio_urls = _rep_to_urls(loc.audio)]
    /\ pc' = "mkdtemp"
    /\ UNCHANGED <<call, result, dirs, files, existed, log, selectVars, resolveVars, inputVars, schedVars>>

\* the fast path never taken
FastPathNever == FALSE

\* the test on the video written "if video_urls"
FastPathAnyVideo == Len(loc.video_urls) >= 1 /\ Len(loc.audio_urls) = 1

\* line 152
FastPath == Len(loc.video_urls) = 1 /\ Len(loc.audio_urls) = 1

\* a directory named after the video alone, made if it is not there
NamedDir == {"tmp1"}

\* line 147: tempfile.mkdtemp makes a directory of a name that no
\* directory has at that time
FreshDirs == TmpNames \ dirs

\* lines 147-152: the work directory, then the choice of the path
pd_Mkdtemp ==
    /\ prog = "parse_dash" /\ pc = "mkdtemp"
    /\ \E d \in FreshDirs :
          /\ dirs' = dirs \cup {d}
          /\ loc' = [loc EXCEPT !.tmpdir = d]
          /\ log' = Append(log, [op |-> "mkdtemp", dir |-> d])
    /\ pc' = IF FastPath THEN "fast_video" ELSE "join_video"
    /\ UNCHANGED <<call, result, files, existed, selectVars, resolveVars, inputVars, schedVars>>

\* _download below without raise_for_status: the body of a response of
\* non-success status is written as the file and the call goes on
DownloadUnchecked(u, dst, r, next) ==
    /\ log' = Append(log, [op |-> "download", url |-> u, dst |-> dst, response |-> r])
    /\ IF r \in {"ok", "status"}
       THEN /\ files' = files \cup {dst}
            /\ pc' = next
       ELSE /\ UNCHANGED files
            /\ pc' = "finally"

\* _download, lines 35-49: the request, raise_for_status, then the file
\* written; on a failure nothing is written and the error leaves the try
\* block of parse_dash for its finally clause
Download(u, dst, r, next) ==
    /\ log' = Append(log, [op |-> "download", url |-> u, dst |-> dst, response |-> r])
    /\ IF r = "ok"
       THEN /\ files' = files \cup {dst}
            /\ pc' = next
       ELSE /\ UNCHANGED files
            /\ pc' = "finally"

DownloadError(r) ==
    [raise |-> IF r = "status" THEN "HTTPError" ELSE "ConnectionError"]

\* lines 153-156
pd_FastVideo ==
    /\ prog = "parse_dash" /\ pc = "fast_video"
    /\ \E r \in Responses :
          /\ Download(loc.video_urls[1], <<loc.tmpdir, "video.mp4">>, r, "fast_audio")
          /\ loc' = IF r = "ok" THEN loc ELSE [loc EXCEPT !.pending = DownloadError(r)]
    /\ UNCHANGED <<call, result, dirs, existed, selectVars, resolveVars, inputVars, schedVars>>

\* lines 154-158
pd_FastAudio ==
    /\ prog = "parse_dash" /\ pc = "fast_audio"
    /\ \E r \in Responses :
          /\ Download(loc.audio_urls[1], <<loc.tmpdir, "audio.m4a">>, r, "fast_mux")
          /\ loc' = IF r = "ok" THEN loc ELSE [loc EXCEPT !.pending = DownloadError(r)]
    /\ UNCHANGED <<call, result, dirs, existed, selectVars, resolveVars, inputVars, schedVars>>

\* the ffmpeg run below made with subprocess.call: the exit status is dropped
MuxUnchecked(v, a, rc) ==
    /\ log' = Append(log, [op |-> "mux", video |-> v, audio |-> a,
                           dst |-> loc.output_path, rc |-> rc])
    /\ IF rc = 0
       THEN files' = files \cup {loc.output_path}
       ELSE files' \in AfterFailedRun(files, loc.output_path)
    /\ loc' = [loc EXCEPT !.pending = [ret |-> loc.output_path]]
    /\ pc' = "finally"

\* the ffmpeg run below with a non-zero exit answered by downloading the
\* tracks again
MuxRetrying(v, a, rc) ==
    /\ log' = Append(log, [op |-> "mux", video |-> v, audio |-> a,
                           dst |-> loc.output_path, rc |-> rc])
    /\ IF rc = 0
       THEN /\ files' = files \cup {loc.output_path}
            /\ loc' = [loc EXCEPT !.pending = [ret |-> loc.output_path]]
            /\ pc' = "finally"
       ELSE /\ files' \in AfterFailedRun(files, loc.output_path)
            /\ UNCHANGED loc
            /\ pc' = "join_video"

\* subprocess.check_call of ffmpeg -y -i v -i a -c copy out: the output is
\* written (over an existing one) on exit 0, CalledProcessError otherwise
Mux(v, a, rc) ==
    /\ log' = Append(log, [op |-> "mux", video |-> v, audio |-> a,
                           dst |-> loc.output_path, rc |-> rc])
    /\ IF rc = 0
       THEN /\ files' = files \cup {loc.output_path}
            /\ loc' = [loc EXCEPT !.pending = [ret |-> loc.output_path]]
       ELSE /\ files' \in AfterFailedRun(files, loc.output_path)
            /\ loc' = [loc EXCEPT !.pending = [raise |-> "CalledProcessError"]]
    /\ pc' = "finally"

\* lines 160-174
pd_FastMux ==
    /\ prog = "parse_dash" /\ pc = "fast_mux"
    /\ \E rc \in ExitCodes :
          Mux(<<loc.tmpdir, "video.mp4">>, <<loc.tmpdir, "audio.m4a">>, rc)
    /\ UNCHANGED <<call, result, dirs, existed, selectVars, resolveVars, inputVars, schedVars>>

\* _download_join, lines 177-196, is entered for a track that has URLs
\* (lines 198-199); a track with none gets no file
pd_JoinCall ==
    /\ prog = "parse_dash" /\ pc \in {"join_video", "join_audio"}
    /\ LET urls == IF pc = "join_video" THEN loc.video_urls ELSE loc.audio_urls
       IN  IF urls # <<>>
           THEN /\ loc' = [loc EXCEPT !.out_name = IF pc = "join_video" THEN "video" ELSE "audio",
                                      !.parts = <<>>]
                /\ pc' = "segment"
           ELSE /\ pc' = IF pc = "join_video" THEN "join_audio" ELSE "combine"
                /\ UNCHANGED loc
    /\ UNCHANGED <<call, result, dirs, files, existed, log, selectVars, resolveVars, inputVars, schedVars>>

JoinUrls == IF loc.out_name = "video" THEN loc.video_urls ELSE loc.audio_urls

\* lines 179-183: the next segment, enumerate() counting from 0
pd_Segment ==
    /\ prog = "parse_dash" /\ pc = "segment"
    /\ Len(loc.parts) < Len(JoinUrls)
    /\ LET i == Len(loc.parts)
           part == <<loc.tmpdir, loc.out_name \o "_part" \o Pad3(i)>>
       IN  \E r \in Responses :
              /\ Download(JoinUrls[i + 1], part, r, "segment")
              /\ loc' = IF r = "ok" THEN [loc EXCEPT !.parts = Append(@, part)]
                         ELSE [loc EXCEPT !.pending = DownloadError(r)]
    /\ UNCHANGED <<call, result, dirs, existed, selectVars, resolveVars, inputVars, schedVars>>

\* the return below without the except clause of lines 194-196
JoinedOrRaise(joined, rc) == IF rc = 0 THEN [ret |-> joined] ELSE [raise |-> "CalledProcessError"]

\* lines 191-196: what _download_join returns
JoinedOrFirst(joined, rc) == IF rc = 0 THEN [ret |-> joined] ELSE [ret |-> loc.parts[1]]

\* lines 184-196: the list file, then ffmpeg -f concat; on a non-zero exit
\* the first part stands in for the joined file
pd_Concat ==
    /\ prog = "parse_dash" /\ pc = "segment"
    /\ Len(loc.parts) = Len(JoinUrls)
    /\ LET listfile == <<loc.tmpdir, loc.out_name \o "_list.txt">>
           joined == <<loc.tmpdir, loc.out_name \o "_joined.mp4">>
       IN  \E rc \in ExitCodes :
              LET out == JoinedOrFirst(joined, rc)
              IN  /\ log' = Append(log, [op |-> "concat", track |-> loc.out_name,
                                         manifest |-> loc.parts, dst |-> joined, rc |-> rc])
                  /\ IF rc = 0
                     THEN files' = files \cup {listfile, joined}
                     ELSE files' \in AfterFailedRun(files \cup {listfile}, joined)
                  /\ IF "raise" \in DOMAIN out
                     THEN /\ loc' = [loc EXCEPT !.pending = out]
                          /\ pc' = "finally"
                     ELSE /\ loc' = IF loc.out_name = "video"
                                     THEN [loc EXCEPT !.vfile = out.ret]
                                     ELSE [loc EXCEPT !.afile = out.ret]
                          /\ pc' = IF loc.out_name = "video" THEN "join_audio" ELSE "combine"
    /\ UNCHANGED <<call, result, dirs, existed, selectVars, resolveVars, inputVars, schedVars>>

\* lines 201-204
pd_FinalMux ==
    /\ prog = "parse_dash" /\ pc = "combine"
    /\ loc.vfile # NoPath /\ loc.afile # NoPath
    /\ \E rc \in ExitCodes : Mux(loc.vfile, loc.afile, rc)
    /\ UNCHANGED <<call, result, dirs, existed, selectVars, resolveVars, inputVars, schedVars>>

\* the branch below returning the output path without the move
pd_ReturnUnmoved ==
    /\ prog = "parse_dash" /\ pc = "combine"
    /\ loc.vfile # NoPath /\ loc.afile = NoPath
    /\ loc' = [loc EXCEPT !.pending = [ret |-> loc.output_path]]
    /\ pc' = "finally"
    /\ UNCHANGED <<call, result, dirs, files, existed, log, selectVars, resolveVars, inputVars, schedVars>>

\* lines 205-207: shutil.move
pd_Move ==
    /\ prog = "parse_dash" /\ pc = "combine"
    /\ loc.vfile # NoPath /\ loc.afile = NoPath
    /\ files' = (files \ {loc.vfile}) \cup {loc.output_path}
    /\ log' = Append(log, [op |-> "move", src |-> loc.vfile, dst |-> loc.output_path])
    /\ loc' = [loc EXCEPT !.pending = [ret |-> loc.output_path]]
    /\ pc' = "finally"
    /\ UNCHANGED <<call, result, dirs, existed, selectVars, resolveVars, inputVars, schedVars>>

\* the branch below with an audio file alone taken as the output
pd_AudioAsOutput ==
    /\ prog = "parse_dash" /\ pc = "combine"
    /\ loc.vfile = NoPath
    /\ IF loc.afile # NoPath
       THEN /\ files' = (files \ {loc.afile}) \cup {loc.output_path}
            /\ log' = Append(log, [op |-> "move", src |-> loc.afile, dst |-> loc.output_path])
            /\ loc' = [loc EXCEPT !.pending = [ret |-> loc.output_path]]
       ELSE /\ loc' = [loc EXCEPT !.pending =
                          [raise |-> "RuntimeError: Could not assemble media files from dash object"]]
            /\ UNCHANGED <<files, log>>
    /\ pc' = "finally"
    /\ UNCHANGED <<call, result, dirs, existed, selectVars, resolveVars, inputVars, schedVars>>

\* lines 208-209
pd_CouldNotAssemble ==
    /\ prog = "parse_dash" /\ pc = "combine"
    /\ loc.vfile = NoPath
    /\ loc' = [loc EXCEPT !.pending =
                  [raise |-> "RuntimeError: Could not assemble media files from dash object"]]
    /\ pc' = "finally"
    /\ UNCHANGED <<call, result, dirs, files, existed, log, selectVars, resolveVars, inputVars, schedVars>>

\* the files of a directory
InDir(d) == {f \in files : f[1] = d}

\* the removal below placed after the return instead of in a finally clause
CleanupOnReturnOnly(removed) ==
    /\ result' = loc.pending
    /\ IF "ret" \in DOMAIN loc.pending
       THEN /\ log' = Append(log, [op |-> "rmtree", dir |-> loc.tmpdir, removed |-> removed])
            /\ IF removed
               THEN /\ dirs' = dirs \ {loc.tmpdir}
                    /\ files' = files \ InDir(loc.tmpdir)
               ELSE UNCHANGED <<dirs, files>>
       ELSE UNCHANGED <<log, dirs, files>>

\* lines 211-216: shutil.rmtree(tmpdir) removes the directory and what is
\* in it, or fails and leaves it; the failure is passed over and the
\* pending return or exception goes to the caller
Cleanup(removed) ==
    /\ log' = Append(log, [op |-> "rmtree", dir |-> loc.tmpdir, removed |-> removed])
    /\ IF removed
       THEN /\ dirs' = dirs \ {loc.tmpdir}
            /\ files' = files \ InDir(loc.tmpdir)
       ELSE UNCHANGED <<dirs, files>>
    /\ result' = loc.pending

pd_Finally ==
    /\ prog = "parse_dash" /\ pc = "finally"
    /\ \E removed \in BOOLEAN : Cleanup(removed)
    /\ pc' = "done"
    /\ UNCHANGED <<call, loc, existed, selectVars, resolveVars, inputVars, schedVars>>

\* ------------------------------------------------------------- spider.py
SpLocals == [videoResponse |-> "", audioResponse |-> ""]

Public(name) == <<"public", name>>

\* the test of line 35 left out
SkipNever(out) == FALSE

\* line 35
SkipIfOutputExists(out) == out \in files

\* lines 32-36: the output directory, then the early return when the
\* muxed file is there already
sp_Start ==
    /\ prog = "spider" /\ pc = "start"
    /\ dirs' = dirs \cup {"public"}
    /\ pc' = IF SkipIfOutputExists(Public(bvid \o "_new.mp4")) THEN "print" ELSE "get_video"
    /\ UNCHANGED <<call, loc, result, files, existed, log, selectVars, resolveVars, inputVars, schedVars>>

\* requests.get(..).content, lines 38-39: the body is taken whatever the
\* status; only a transport failure raises, and nothing in getMediaData or
\* main catches it
Fetch(track, r, next) ==
    /\ log' = Append(log, [op |-> "get", url |-> url[track], response |-> r])
    /\ IF r = "transport"
       THEN /\ result' = [raise |-> "ConnectionError"]
            /\ pc' = "done"
            /\ UNCHANGED loc
       ELSE /\ loc' = IF track = "video" THEN [loc EXCEPT !.videoResponse = r]
                       ELSE [loc EXCEPT !.audioResponse = r]
            /\ pc' = next
            /\ UNCHANGED result

sp_GetVideo ==
    /\ prog = "spider" /\ pc = "get_video"
    /\ \E r \in Responses : Fetch("video", r, "get_audio")
    /\ UNCHANGED <<call, dirs, files, existed, selectVars, resolveVars, inputVars, schedVars>>

sp_GetAudio ==
    /\ prog = "spider" /\ pc = "get_audio"
    /\ \E r \in Responses : Fetch("audio", r, "save")
    /\ UNCHANGED <<call, dirs, files, existed, selectVars, resolveVars, inputVars, schedVars>>

\* lines 40-41, saveFile twice
sp_Save ==
    /\ prog = "spider" /\ pc = "save"
    /\ files' = files \cup {Public(bvid \o ".mp4"), Public(bvid \o ".mp3")}
    /\ log' = Append(Append(log, [op |-> "save", dst |-> Public(bvid \o ".mp4")]),
                     [op |-> "save", dst |-> Public(bvid \o ".mp3")])
    /\ pc' = "rewrite"
    /\ UNCHANGED <<call, loc, result, dirs, existed, selectVars, resolveVars, inputVars, schedVars>>

\* rewriteMP3, lines 23-27 and 43: subprocess.call, the exit status dropped
sp_RewriteMP3 ==
    /\ prog = "spider" /\ pc = "rewrite"
    /\ \E rc \in ExitCodes :
          /\ log' = Append(log, [op |-> "resample", src |-> Public(bvid \o ".mp3"),
                                 dst |-> Public(bvid \o "-44K.mp3"), rc |-> rc])
          /\ IF rc = 0
             THEN files' = files \cup {Public(bvid \o "-44K.mp3")}
             ELSE files' \in AfterFailedRun(files, Public(bvid \o "-44K.mp3"))
    /\ pc' = "mux"
    /\ UNCHANGED <<call, loc, result, dirs, existed, selectVars, resolveVars, inputVars, schedVars>>

\* line 45 with generateFFMPEG, lines 13 and 18-21: subprocess.call, the
\* exit status dropped
sp_Mux ==
    /\ prog = "spider" /\ pc = "mux"
    /\ \E rc \in ExitCodes :
          /\ log' = Append(log, [op |-> "mux", video |-> Public(bvid \o ".mp4"),
                                 audio |-> Public(bvid \o ".mp3"),
                                 dst |-> Public(bvid \o "_new.mp4"), rc |-> rc])
          /\ IF rc = 0
             THEN files' = files \cup {Public(bvid \o "_new.mp4")}
             ELSE files' \in AfterFailedRun(files, Public(bvid \o "_new.mp4"))
    /\ pc' = "remove"
    /\ UNCHANGED <<call, loc, result, dirs, existed, selectVars, resolveVars, inputVars, schedVars>>

\* the removal below taking the two audio files as well
RemovedAfterRun(removed) ==
    IF removed
    THEN files \ {Public(bvid \o ".mp4"), Public(bvid \o ".mp3"), Public(bvid \o "-44K.mp3")}
    ELSE files

\* lines 47-53: os.remove of the downloaded video; a failure is printed
\* and passed over
Removed(removed) == IF removed THEN files \ {Public(bvid \o ".mp4")} ELSE files

sp_Remove ==
    /\ prog = "spider" /\ pc = "remove"
    /\ \E removed \in BOOLEAN :
          /\ files' = Removed(removed)
          /\ log' = Append(log, [op |-> "remove", dst |-> Public(bvid \o ".mp4"),
                                 removed |-> removed])
    /\ pc' = "print"
    /\ UNCHANGED <<call, loc, result, dirs, existed, selectVars, resolveVars, inputVars, schedVars>>

\* main, lines 68-76: getMediaData has returned; "Succeeded!!!" is printed
sp_Print ==
    /\ prog = "spider" /\ pc = "print"
    /\ log' = Append(log, [op |-> "print", text |-> "Succeeded!!!"])
    /\ result' = [ret |-> NoPath]
    /\ pc' = "done"
    /\ UNCHANGED <<call, loc, dirs, files, existed, selectVars, resolveVars, inputVars, schedVars>>

\* ------------------------------------------------------------- the caller
\* a rendition of the track t ("v" or "a") with n URLs: a baseUrl when
\* n = 1, a SegmentList of n media entries otherwise
Track(t, n, i, b) ==
    IF n = 1 THEN [id |-> i, bandwidth |-> b, baseUrl |-> t \o "1"]
    ELSE [id |-> i, bandwidth |-> b,
          SegmentList |-> [list |-> [k \in 1..n |-> [dict |-> ("media" :> (t \o ToString(k)))]]]]

\* the dash dicts given to parse_dash: empty, a track missing or empty
\* under either spelling, every pair of URL counts up to MaxSegs, and two
\* renditions a track of which the one of larger bandwidth is taken
DashInputs ==
    {<<>>,
     "video" :> <<Track("v", 1, 1, 1)>>,
     ("video" :> <<>>) @@ ("audio" :> <<Track("a", 1, 1, 1)>>),
     ("videos" :> <<Track("v", 1, 1, 1)>>) @@ ("audios" :> <<>>),
     ("videos" :> <<Track("v", 1, 1, 1), Track("v", MaxSegs, 2, 2)>>)
        @@ ("audios" :> <<Track("a", 1, 1, 2), Track("a", 2, 2, 1)>>)}
    \cup
    {("video" :> <<Track("v", nv, 1, 1)>>) @@ ("audio" :> <<Track("a", na, 1, 1)>>) :
        nv \in 0..MaxSegs, na \in 0..MaxSegs}

\* where the call writes its output
OutputPath ==
    IF prog = "spider" THEN Public(bvid \o "_new.mp4")
    ELSE <<out_dir, IF output_name # "" THEN output_name ELSE bvid \o "_new.mp4">>

Init ==
    /\ NoSelect /\ NoResolve
    /\ bvid = "BV1"
    /\ \/ /\ prog = "parse_dash"
          /\ dash \in DashInputs
          /\ out_dir = "public"
          /\ output_name \in {"", "movie.mp4"}
          /\ url = <<>>
          /\ loc = PdLocals
       \/ /\ prog = "spider"
          /\ dash = <<>> /\ out_dir = "public" /\ output_name = ""
          /\ url = [video |-> "v1", audio |-> "a1"]
          /\ loc = SpLocals
    /\ call = "first" /\ pc = "start" /\ result = <<>>
    /\ dirs = {} /\ files = {} /\ existed = FALSE /\ log = <<>>
    /\ NoOther

\* the caller runs the same command again with the same arguments
\* (parse_dash.py lines 219-235, spider.py lines 78-79)
CallAgain ==
    /\ pc = "done" /\ call = "first"
    /\ call' = "second"
    /\ pc' = "start"
    /\ loc' = IF prog = "spider" THEN SpLocals ELSE PdLocals
    /\ result' = <<>>
    /\ log' = <<>>
    /\ existed' = (OutputPath \in files)
    /\ UNCHANGED <<dirs, files, selectVars, resolveVars, inputVars, schedVars>>

Next ==
    \/ pd_Validate \/ pd_Select \/ pd_Resolve \/ pd_Mkdtemp
    \/ pd_FastVideo \/ pd_FastAudio \/ pd_FastMux
    \/ pd_JoinCall \/ pd_Segment \/ pd_Concat
    \/ pd_FinalMux \/ pd_Move \/ pd_CouldNotAssemble
    \/ pd_Finally
    \/ sp_Start \/ sp_GetVideo \/ sp_GetAudio \/ sp_Save
    \/ sp_RewriteMP3 \/ sp_Mux \/ sp_Remove \/ sp_Print
    \/ CallAgain

Spec == Init /\ [][Next]_vars

\* ------------------------------------------------------------- two calls at once
\* the track counts of the dash given to both calls: the fast path, two
\* video segments with the audio, the video alone, and no URL at all
ConcCounts == {<<1, 1>>, <<2, 1>>, <<2, 0>>, <<0, 0>>}

ConcDashInputs ==
    {("video" :> <<Track("v", c[1], 1, 1)>>) @@ ("audio" :> <<Track("a", c[2], 1, 1)>>) :
        c \in ConcCounts}

\* a call that has not started
NotStarted == [pc |-> "start", loc |-> PdLocals, result |-> <<>>, log |-> <<>>]

\* parse_dash called twice at the same time, by two threads or two
\* processes, with the same arguments: the two share the file system only
InitConc ==
    /\ NoSelect /\ NoResolve
    /\ prog = "parse_dash" /\ bvid = "BV1"
    /\ dash \in ConcDashInputs
    /\ out_dir = "public" /\ output_name = "" /\ url = <<>>
    /\ call = "first" /\ pc = "start" /\ loc = PdLocals /\ result = <<>>
    /\ dirs = {} /\ files = {} /\ existed = FALSE /\ log = <<>>
    /\ me = 1 /\ other = NotStarted

\* the scheduler stops the running call between two of its steps and lets
\* the other one run: each call keeps its own position, locals and result
Switch ==
    /\ other # <<>>
    /\ me' = 3 - me
    /\ other' = [pc |-> pc, loc |-> loc, result |-> result, log |-> log]
    /\ pc' = other.pc /\ loc' = other.loc
    /\ result' = other.result /\ log' = other.log
    /\ UNCHANGED <<call, dirs, files, existed, selectVars, resolveVars, inputVars>>

NextConc ==
    \/ pd_Validate \/ pd_Select \/ pd_Resolve \/ pd_Mkdtemp
    \/ pd_FastVideo \/ pd_FastAudio \/ pd_FastMux
    \/ pd_JoinCall \/ pd_Segment \/ pd_Concat
    \/ pd_FinalMux \/ pd_Move \/ pd_CouldNotAssemble
    \/ pd_Finally
    \/ Switch

SpecConc == InitConc /\ [][NextConc]_vars

\* ============================================================= claims
\* the operations of the running call, in order
Ops == [i \in DOMAIN log |-> log[i].op]

Count(op) == Cardinality({i \in DOMAIN log : log[i].op = op})

\* the downloads of the running call, in order
Downloads == SelectSeq(log, LAMBDA e : e.op = "download")

\* every download, concatenation and mux of the running call succeeded
AllSucceeded ==
    \A i \in DOMAIN log :
        /\ log[i].op \in {"download", "get"} => log[i].response = "ok"
        /\ log[i].op \in {"concat", "mux", "resample"} => log[i].rc = 0

Ended == pc = "done"

Returned == Ended /\ DOMAIN result = {"ret"}

\* a parse_dash call that has made its work directory and has ended
AssembleEnded == prog = "parse_dash" /\ Ended /\ loc.tmpdir # ""

\* ------------------------------------------------------------- C1
\* C1 as stated: when a parse_dash call that made a work directory has
\* ended, by a return or by any exception, the directory does not exist,
\* and no failure of its removal was raised.
C1_Original ==
    AssembleEnded => /\ loc.tmpdir \notin dirs
                     /\ result = loc.pending

\* C1 amended: when such a call has ended, the removal of its work directory
\* was attempted, once and as the last step; the directory and the files in
\* it are gone unless that removal failed; and the caller gets the pending
\* return or exception, never the failure of the removal.
C1_WorkAreaRemoved ==
    AssembleEnded =>
        /\ Count("rmtree") = 1
        /\ log[Len(log)].op = "rmtree" /\ log[Len(log)].dir = loc.tmpdir
        /\ log[Len(log)].removed => (loc.tmpdir \notin dirs /\ InDir(loc.tmpdir) = {})
        /\ result = loc.pending
        /\ result # <<>>

\* a call that a failed download ended, its work directory removed
C1_Witness ==
    /\ AssembleEnded
    /\ result = [raise |-> "HTTPError"]
    /\ Len(loc.parts) = 1
    /\ loc.tmpdir \notin dirs /\ InDir(loc.tmpdir) = {}

\* ------------------------------------------------------------- C2
MuxFailed == \E i \in DOMAIN log : log[i].op = "mux" /\ log[i].rc # 0

\* C2: when the two-input mux of a parse_dash call exits non-zero, on the
\* fast path or as the final combine, the call ends by raising the mux
\* error and does not return the output path.
C2_MuxFailureRaises ==
    (prog = "parse_dash" /\ Ended /\ MuxFailed) =>
        result = [raise |-> "CalledProcessError"]

\* the final combine of the multi-segment path failed and the call raised
C2_Witness ==
    /\ prog = "parse_dash" /\ Ended /\ MuxFailed
    /\ Count("concat") = 2
    /\ result = [raise |-> "CalledProcessError"]

\* ------------------------------------------------------------- C3
\* the dash is empty, or has no video list or no audio list that is not
\* empty, under either spelling of the key
InvalidDash ==
    \/ DOMAIN dash = {}
    \/ \A k \in {"video", "videos"} : k \notin DOMAIN dash \/ dash[k] = <<>>
    \/ \A k \in {"audio", "audios"} : k \notin DOMAIN dash \/ dash[k] = <<>>

\* C3: on such a dash parse_dash raises the invalid-input error, and at no
\* point of the call has it made a work directory, a download or an ffmpeg
\* run, or gone on to selection.
C3_InvalidInputFailsFirst ==
    (prog = "parse_dash" /\ InvalidDash) =>
        /\ pc \in {"start", "done"}
        /\ log = <<>>
        /\ loc.tmpdir = "" /\ dirs \cap TmpNames = {}
        /\ Ended => result \in {[raise |-> "ValueError: Empty dash object"],
                                 [raise |-> "ValueError: Dash object missing video or audio arrays"]}

\* a dash with a video list and an empty audio list was refused
C3_Witness ==
    /\ prog = "parse_dash" /\ Ended
    /\ "videos" \in DOMAIN dash /\ dash["videos"] # <<>>
    /\ "audios" \in DOMAIN dash /\ dash["audios"] = <<>>
    /\ result = [raise |-> "ValueError: Dash object missing video or audio arrays"]

\* ------------------------------------------------------------- C4
\* a returned call whose two renditions resolved to one URL each
FastReturned ==
    /\ prog = "parse_dash" /\ Returned
    /\ Len(loc.video_urls) = 1 /\ Len(loc.audio_urls) = 1

\* two downloads, the video then the audio, no concatenation, one mux
FastPathCalls ==
    /\ Len(Downloads) = 2
    /\ Downloads[1].url = loc.video_urls[1] /\ Downloads[1].dst = <<loc.tmpdir, "video.mp4">>
    /\ Downloads[2].url = loc.audio_urls[1] /\ Downloads[2].dst = <<loc.tmpdir, "audio.m4a">>
    /\ Count("concat") = 0
    /\ Count("mux") = 1
    /\ \E i \in DOMAIN log :
          /\ log[i].op = "mux"
          /\ log[i].video = <<loc.tmpdir, "video.mp4">>
          /\ log[i].audio = <<loc.tmpdir, "audio.m4a">>
          /\ log[i].dst = result.ret

\* C4 as stated: such a call made exactly two downloads (video, then audio),
\* no concatenation and one mux, and returned <out_dir>/<bvid>_new.mp4.
C4_Original ==
    FastReturned => /\ FastPathCalls
                    /\ result.ret = <<out_dir, bvid \o "_new.mp4">>

\* C4 amended: the same calls; the path returned is <out_dir>/<output_name>
\* when an output name is given, and <out_dir>/<bvid>_new.mp4 when none is.
C4_FastPath ==
    FastReturned =>
        /\ FastPathCalls
        /\ output_name = "" => result.ret = <<out_dir, bvid \o "_new.mp4">>
        /\ output_name # "" => result.ret = <<out_dir, output_name>>
        /\ result.ret \in files

\* the fast path returned the default output path
C4_Witness ==
    /\ FastReturned /\ output_name = ""
    /\ result = [ret |-> <<"public", "BV1_new.mp4">>]
    /\ Ops = <<"mkdtemp", "download", "download", "mux", "rmtree">>

\* ------------------------------------------------------------- C5
\* a call whose video resolved to three URLs and audio to one, ended with
\* every download and ffmpeg run successful
ThreeAndOne ==
    /\ prog = "parse_dash" /\ Ended /\ AllSucceeded
    /\ Len(loc.video_urls) = 3 /\ Len(loc.audio_urls) = 1

Tmp(name) == <<loc.tmpdir, name>>

\* four downloads: the three video segments, then the audio
FourDownloads ==
    /\ Len(Downloads) = 4
    /\ \A i \in 1..3 : Downloads[i].url = loc.video_urls[i]
    /\ Downloads[4].url = loc.audio_urls[1]

\* one mux, of the joined video and the audio file
OneMuxOf(v, a) ==
    /\ Count("mux") = 1
    /\ \E i \in DOMAIN log : log[i].op = "mux" /\ log[i].video = v /\ log[i].audio = a

Concats == SelectSeq(log, LAMBDA e : e.op = "concat")

\* C5 as stated: four downloads, the concatenation run exactly once and for
\* the video track only, then one mux of the joined video and the audio.
C5_Original ==
    ThreeAndOne =>
        /\ FourDownloads
        /\ Len(Concats) = 1 /\ Concats[1].track = "video"
        /\ Count("mux") = 1

\* C5 amended: four downloads; the concatenation is run twice, once for the
\* video track after its three downloads and once for the audio track after
\* its one download; then one mux of the joined video and the joined audio.
C5_ThreeVideoOneAudio ==
    ThreeAndOne =>
        /\ FourDownloads
        /\ Ops = <<"mkdtemp", "download", "download", "download", "concat",
                   "download", "concat", "mux", "rmtree">>
        /\ Concats[1].track = "video"
        /\ Concats[1].manifest = <<Tmp("video_part000"), Tmp("video_part001"), Tmp("video_part002")>>
        /\ Concats[2].track = "audio"
        /\ Concats[2].manifest = <<Tmp("audio_part000")>>
        /\ OneMuxOf(Tmp("video_joined.mp4"), Tmp("audio_joined.mp4"))
        /\ Returned

\* such a call returned
C5_Witness ==
    /\ ThreeAndOne /\ Returned
    /\ Count("concat") = 2
    /\ loc.vfile = Tmp("video_joined.mp4") /\ loc.afile = Tmp("audio_joined.mp4")


\* ------------------------------------------------------------- C9
\* the second of two calls with the same arguments, begun with the output
\* file in place
SecondCallOnOutput == call = "second" /\ existed

\* the operations that fetch or combine media
Work == {"download", "get", "concat", "resample", "mux", "move"}

NoWork == \A i \in DOMAIN log : log[i].op \notin Work

\* C9 as stated: such a second call raises no error and skips the work: no
\* download and no mux, the output file left in place.
C9_Original ==
    (SecondCallOnOutput /\ Ended /\ AllSucceeded) =>
        /\ DOMAIN result = {"ret"}
        /\ NoWork
        /\ OutputPath \in files

\* C9 amended: such a second call raises no error on account of the output
\* file.  In the direct form (spider) it skips the work: no request, no
\* file written or removed, no ffmpeg run, the output left in place.
\* parse_dash does not skip: it makes a work directory, resolves and
\* downloads as the first time and, when its downloads and ffmpeg runs
\* succeed, writes the output again over the existing file (ffmpeg -y, or
\* the move) and returns its path.
C9_SecondCall ==
    SecondCallOnOutput =>
        /\ prog = "spider" =>
              /\ pc \in {"start", "print", "done"}
              /\ OutputPath \in files
              /\ Ended => (result = [ret |-> NoPath] /\ Ops = <<"print">>)
        /\ (prog = "parse_dash" /\ Ended /\ AllSucceeded /\ loc.video_urls # <<>>) =>
              /\ result = [ret |-> OutputPath]
              /\ OutputPath \in files
              /\ Count("mkdtemp") = 1
              /\ Len(Downloads) = Len(loc.video_urls) + Len(loc.audio_urls)
              /\ \E i \in DOMAIN log : log[i].op \in {"mux", "move"} /\ log[i].dst = OutputPath

\* the direct form, run again on its own output, has skipped
C9_Witness ==
    /\ SecondCallOnOutput /\ prog = "spider" /\ Ended
    /\ Ops = <<"print">>
    /\ Public("BV1_new.mp4") \in files

\* ------------------------------------------------------------- C10
WorkFiles == {Public(bvid \o ".mp4"), Public(bvid \o ".mp3"), Public(bvid \o "-44K.mp3")}

\* C10 as stated: when a call of the direct form has ended, the downloaded
\* video, the downloaded audio and the resampled audio are all gone.
C10_Original == (prog = "spider" /\ Ended) => files \cap WorkFiles = {}

Logged(op) == \E i \in DOMAIN log : log[i].op = op

\* C10 amended: when a call of the direct form has ended after saving its
\* downloads, only the downloaded video <bvid>.mp4 has been removed, and
\* that unless os.remove failed; the downloaded audio <bvid>.mp3 remains,
\* and so does the resampled <bvid>-44K.mp3 when the resampling wrote it.
\* A call ended by a transport error, or one that skipped, wrote and
\* removed nothing.
C10_OnlyVideoRemoved ==
    (prog = "spider" /\ Ended) =>
        IF Logged("save")
        THEN /\ Returned
             /\ Ops = <<"get", "get", "save", "save", "resample", "mux", "remove", "print">>
             /\ log[7].removed => Public(bvid \o ".mp4") \notin files
             /\ Public(bvid \o ".mp3") \in files
             /\ log[5].rc = 0 => Public(bvid \o "-44K.mp3") \in files
        ELSE /\ \A i \in DOMAIN log : log[i].op \in {"get", "print"}
             /\ call = "first" => files = {}

\* a first call that ran to the end: the video removed, the two audio
\* files left beside the output
C10_Witness ==
    /\ prog = "spider" /\ Ended /\ call = "first" /\ AllSucceeded
    /\ files = {Public("BV1.mp3"), Public("BV1-44K.mp3"), Public("BV1_new.mp4")}

\* ------------------------------------------------------------- C6
HasBw(i) == "bandwidth" \in DOMAIN rep_list0[i]

\* C6: _select_best agrees with the reference on every rendition list.  On
\* the empty list it raises the empty-input error.  If some entry carries a
\* bandwidth (0 included, other entries possibly carrying none) it returns
\* an entry of maximum bandwidth that no earlier entry equals.  If no entry
\* carries a bandwidth it returns the first entry.  The list is unchanged.
C6_SelectBestReference ==
    selected # <<>> =>
        /\ rep_list = rep_list0
        /\ rep_list0 = <<>> => selected = [raise |-> "ValueError: No representations available"]
        /\ rep_list0 # <<>> =>
            /\ DOMAIN selected = {"ret"}
            /\ IF \E i \in 1..Len(rep_list0) : HasBw(i)
               THEN \E i \in 1..Len(rep_list0) :
                       /\ HasBw(i)
                       /\ selected.ret = rep_list0[i]
                       /\ \A j \in 1..Len(rep_list0) :
                              HasBw(j) => rep_list0[j].bandwidth <= rep_list0[i].bandwidth
                       /\ \A j \in 1..(i - 1) :
                              HasBw(j) => rep_list0[j].bandwidth < rep_list0[i].bandwidth
               ELSE selected.ret = rep_list0[1]

\* a list whose first entry has no bandwidth, whose second is 0 and whose
\* last two tie for the maximum: the earlier of the two was returned
C6_Witness ==
    /\ Len(rep_list0) = 3
    /\ ~HasBw(1) /\ HasBw(2) /\ HasBw(3)
    /\ rep_list0[2].bandwidth = 0 /\ rep_list0[3].bandwidth = 0
    /\ selected = [ret |-> rep_list0[2]]

\* ------------------------------------------------------------- C7
\* C7: a rendition with a non-empty baseUrl resolves to exactly that one
\* URL, whatever segment list or baseUrls it also carries.
C7_DirectUrlWins ==
    (resolved # <<>> /\ shape.baseUrl = "set") => resolved.ret = <<rep["baseUrl"]>>

\* a rendition with a baseUrl, a segment list with URLs and a baseUrls list
C7_Witness ==
    /\ resolved # <<>>
    /\ shape.baseUrl = "set" /\ shape.container # "none" /\ shape.baseUrls # "absent"
    /\ \E i \in 1..Len(shape.kinds) : shape.kinds[i] \in UrlKinds
    /\ resolved.ret = <<"u0">>

\* ------------------------------------------------------------- C8
\* the URLs of the entries that carry one, in list order
RECURSIVE UrlsFrom(_, _)
UrlsFrom(kinds, i) ==
    IF i > Len(kinds) THEN <<>>
    ELSE (IF kinds[i] \in UrlKinds THEN <<SegUrl(i)>> ELSE <<>>) \o UrlsFrom(kinds, i + 1)

\* no direct URL, and a segment list with an entry at least
SegmentListOnly ==
    /\ resolved # <<>>
    /\ shape.baseUrl # "set" /\ shape.container # "none" /\ shape.kinds # <<>>

\* C8 as stated: a rendition with no direct URL but a segment list resolves,
\* under every container spelling and entry field, to the URLs of its
\* entries that have one, in list order.
C8_Original == SegmentListOnly => resolved.ret = UrlsFrom(shape.kinds, 1)

\* C8 amended: the same, provided an entry has a URL or the rendition has no
\* baseUrls list; when no entry has a URL and there is a baseUrls list, the
\* URLs of baseUrls are returned instead.
C8_SegmentListSpellings ==
    SegmentListOnly =>
        IF UrlsFrom(shape.kinds, 1) # <<>> \/ shape.baseUrls = "absent"
        THEN resolved.ret = UrlsFrom(shape.kinds, 1)
        ELSE resolved.ret = BaseUrlsUrls(rep["baseUrls"])

\* a wrapped list under the spelling "segment", its entries a url dict, a
\* dict with no URL... resolved to the one URL, with baseUrls present
C8_Witness ==
    /\ SegmentListOnly
    /\ shape.container = "segment" /\ shape.wrapper = "segmentURL"
    /\ shape.kinds = <<"nourl", "url">> /\ shape.baseUrls = "strs"
    /\ resolved.ret = <<"s2">>

\* ------------------------------------------------------------- C12
\* a download of the spider call was answered with a non-success status
StatusFailed ==
    \E i \in DOMAIN log : log[i].op \in {"get", "download"} /\ log[i].response = "status"

\* C12 as stated: a spider call one download of which was answered with a
\* non-success status, or the mux of which exited non-zero, does not print
\* "Succeeded!!!" and ends by passing a failure to its caller.
C12_Original ==
    (prog = "spider" /\ (StatusFailed \/ MuxFailed)) =>
        /\ Count("print") = 0
        /\ Ended => "raise" \in DOMAIN result

\* ------------------------------------------------------------- C13
\* the concatenation of the track t exited non-zero
ConcatFailed(t) ==
    \E i \in DOMAIN log : log[i].op = "concat" /\ log[i].track = t /\ log[i].rc # 0

\* the file that stands for the track t after _download_join
TrackFile(t) == IF t = "video" THEN loc.vfile ELSE loc.afile

\* no download of the running call failed
DownloadsOk == \A i \in DOMAIN log : log[i].op = "download" => log[i].response = "ok"

\* C13: when the concatenation of a track exits non-zero, no error is
\* pending or raised for it (a CalledProcessError comes from a failed mux
\* only), the file of the track is its first segment, index 000, and the
\* call goes on as with a joined file: with both tracks the final mux is
\* run once on the two track files, with the video alone that file is
\* moved to the output path and the path returned.
C13_ConcatFailureFallsBack ==
    prog = "parse_dash" =>
        /\ \A t \in {"video", "audio"} :
              ConcatFailed(t) => TrackFile(t) = Tmp(t \o "_part000")
        /\ loc.pending = [raise |-> "CalledProcessError"] => MuxFailed
        /\ (Ended /\ DownloadsOk /\ (ConcatFailed("video") \/ ConcatFailed("audio"))) =>
              /\ (loc.video_urls # <<>> /\ loc.audio_urls # <<>>) =>
                    OneMuxOf(loc.vfile, loc.afile)
              /\ (loc.video_urls # <<>> /\ loc.audio_urls = <<>>) =>
                    /\ Returned /\ Count("mux") = 0
                    /\ \E i \in DOMAIN log : /\ log[i].op = "move"
                                             /\ log[i].src = Tmp("video_part000")
                                             /\ log[i].dst = loc.output_path

\* the concatenation of the three video segments failed, the first segment
\* was muxed with the audio and the output path returned
C13_Witness ==
    /\ prog = "parse_dash" /\ Returned
    /\ Len(loc.video_urls) = 3 /\ ConcatFailed("video") /\ ~ConcatFailed("audio")
    /\ OneMuxOf(Tmp("video_part000"), loc.afile)

\* ------------------------------------------------------------- C14
\* a parse_dash call on the multi-segment path that has ended after both
\* of its _download_join steps, no download having failed
Combined ==
    /\ prog = "parse_dash" /\ Ended /\ loc.tmpdir # ""
    /\ ~FastPath /\ DownloadsOk

\* no mux was run; the video file was moved to the output path before the
\* removal of the work directory, it is there when the call has ended, out
\* of the work directory, and the path was returned
MovedOut ==
    /\ Count("mux") = 0 /\ Count("move") = 1
    /\ \E i \in DOMAIN log : /\ log[i].op = "move"
                             /\ log[i].src = loc.vfile /\ log[i].dst = loc.output_path
                             /\ \A j \in 1..i : log[j].op # "rmtree"
    /\ loc.output_path[1] # loc.tmpdir
    /\ loc.output_path \in files /\ loc.vfile \notin files
    /\ result = [ret |-> loc.output_path]

\* the assembly error, with no download, concatenation or mux made
NothingToAssemble ==
    /\ result = [raise |-> "RuntimeError: Could not assemble media files from dash object"]
    /\ Count("download") = 0 /\ Count("concat") = 0 /\ Count("mux") = 0

\* C14 as stated: with both track files one mux is run and the output path
\* returned; with the video file alone it is moved out and the path
\* returned; with neither the assembly error is raised and nothing was
\* downloaded or muxed.
C14_Original ==
    Combined =>
        /\ (loc.vfile # NoPath /\ loc.afile # NoPath) =>
              /\ OneMuxOf(loc.vfile, loc.afile)
              /\ result = [ret |-> loc.output_path]
        /\ (loc.vfile # NoPath /\ loc.afile = NoPath) => MovedOut
        /\ (loc.vfile = NoPath /\ loc.afile = NoPath) => NothingToAssemble

\* C14 amended: as stated, but with both track files the output path is
\* returned when the one mux exits zero, and the mux error is raised when
\* it exits non-zero.
C14_OutcomeByTrackFiles ==
    Combined =>
        /\ (loc.vfile # NoPath /\ loc.afile # NoPath) =>
              /\ OneMuxOf(loc.vfile, loc.afile)
              /\ result = IF MuxFailed THEN [raise |-> "CalledProcessError"]
                          ELSE [ret |-> loc.output_path]
        /\ (loc.vfile # NoPath /\ loc.afile = NoPath) => MovedOut
        /\ (loc.vfile = NoPath /\ loc.afile = NoPath) => NothingToAssemble

\* the video of two segments alone: joined, moved out and returned
C14_Witness ==
    /\ Combined
    /\ Len(loc.video_urls) = 2 /\ loc.audio_urls = <<>>
    /\ loc.vfile = Tmp("video_joined.mp4") /\ loc.afile = NoPath
    /\ MovedOut

\* ------------------------------------------------------------- C15
\* a parse_dash call on the multi-segment path
MultiSegment == prog = "parse_dash" /\ loc.tmpdir # "" /\ ~FastPath

\* the segment indexes written with three digits
Index3 == <<"000", "001", "002", "003", "004">>

TrackUrls(t) == IF t = "video" THEN loc.video_urls ELSE loc.audio_urls

\* the segments of the track t: URL i of the track and the file of index
\* i - 1 in the work directory, in the order of the URLs
SegmentsOf(t) ==
    [i \in 1..Len(TrackUrls(t)) |->
        [url |-> TrackUrls(t)[i], dst |-> Tmp(t \o "_part" \o Index3[i])]]

\* all the segments of the call in the order of their download
AllSegments == SegmentsOf("video") \o SegmentsOf("audio")

\* the concatenation at p of the log comes right after the downloads of all
\* the n segments of its track, one event per segment in URL order, and
\* its list file names the files of those downloads, each once, in order
AfterItsSegments(p) ==
    LET t == log[p].track
        n == Len(TrackUrls(t))
    IN  /\ n >= 1 /\ p > n
        /\ \A i \in 1..n :
              /\ log[p - n + i - 1].op = "download"
              /\ log[p - n + i - 1].response = "ok"
              /\ log[p - n + i - 1].url = SegmentsOf(t)[i].url
              /\ log[p - n + i - 1].dst = SegmentsOf(t)[i].dst
        /\ log[p].manifest = [i \in 1..n |-> SegmentsOf(t)[i].dst]
        /\ \A q \in DOMAIN log : (log[q].op = "concat" /\ log[q].track = t) => q = p

\* C15: on the multi-segment path the downloads are made one after the
\* other, each after the one before it has succeeded, in the order of the
\* URLs of the track, the video track first, segment i to the file of
\* index i written with three digits; a concatenation is run only after
\* all the segments of its track are downloaded, on a list of exactly
\* those files, each once, in URL order.
C15_SegmentsInOrder ==
    MultiSegment =>
        /\ Len(Downloads) <= Len(AllSegments)
        /\ \A k \in DOMAIN Downloads :
              /\ Downloads[k].url = AllSegments[k].url
              /\ Downloads[k].dst = AllSegments[k].dst
              /\ k < Len(Downloads) => Downloads[k].response = "ok"
        /\ \A p \in DOMAIN log : log[p].op = "concat" => AfterItsSegments(p)
        /\ (log # <<>> /\ log[Len(log)].op = "concat") =>
              \A i \in DOMAIN log[Len(log)].manifest : log[Len(log)].manifest[i] \in files

\* three video and two audio segments downloaded and both tracks joined
C15_Witness ==
    /\ MultiSegment /\ pc = "combine"
    /\ Len(loc.video_urls) = 3 /\ Len(loc.audio_urls) = 2
    /\ Len(Downloads) = 5 /\ Count("concat") = 2
    /\ Downloads[3].dst = Tmp("video_part002") /\ Downloads[5].dst = Tmp("audio_part001")

\* ------------------------------------------------------------- C16
Ffmpeg == {"concat", "mux"}

\* the steps before the downloads come in their order: nothing is chosen
\* before the input is validated, nothing resolved before the choice,
\* nothing downloaded or run before the resolution; and the removal of the
\* work directory, which ends the call, comes after everything else
PhasesInOrder ==
    /\ pc = "start" => loc = PdLocals /\ log = <<>>
    /\ pc = "select" =>
          /\ loc.video = <<>> /\ loc.audio = <<>>
          /\ loc.video_urls = <<>> /\ loc.audio_urls = <<>> /\ log = <<>>
    /\ pc = "resolve" =>
          /\ loc.video # <<>> /\ loc.audio # <<>>
          /\ loc.video_urls = <<>> /\ loc.audio_urls = <<>> /\ log = <<>>
    /\ pc = "mkdtemp" => log = <<>>
    /\ \A i \in DOMAIN log : log[i].op = "rmtree" => (i = Len(log) /\ pc = "done")

\* C16 as stated: the phases come in order, and no download follows an
\* ffmpeg run of the call, be it a concatenation or a two-input mux.
C16_Original ==
    prog = "parse_dash" =>
        /\ PhasesInOrder
        /\ \A i, j \in DOMAIN log :
              (i < j /\ log[i].op \in Ffmpeg) => log[j].op # "download"

\* C16 amended: the phases come in order and nothing is downloaded or
\* concatenated after the two-input mux; on the multi-segment path a
\* download that follows a concatenation is that of an audio segment after
\* the concatenation of the video track, and no download of a track follows
\* the concatenation of that track.
C16_NoDownloadAfterMux ==
    prog = "parse_dash" =>
        /\ PhasesInOrder
        /\ \A i, j \in DOMAIN log :
              /\ (i < j /\ log[i].op = "mux") => log[j].op \notin {"download", "concat", "mux"}
              /\ (i < j /\ log[i].op = "concat" /\ log[j].op = "download") =>
                    /\ log[i].track = "video"
                    /\ \E k \in DOMAIN SegmentsOf("audio") :
                          /\ log[j].url = SegmentsOf("audio")[k].url
                          /\ log[j].dst = SegmentsOf("audio")[k].dst

\* the video track of two segments joined, the two audio segments
\* downloaded after that and joined, and the two tracks muxed
C16_Witness ==
    /\ prog = "parse_dash" /\ Returned
    /\ Len(loc.video_urls) = 2 /\ Len(loc.audio_urls) = 2
    /\ Ops = <<"mkdtemp", "download", "download", "concat", "download", "download",
               "concat", "mux", "rmtree">>

\* ------------------------------------------------------------- C17
\* C17: when a download of a parse_dash call, on the fast path or of any
\* segment, is answered with a non-success status (or fails in transport),
\* the call fails with the download error at that point: the error is
\* pending at once, the destination is not written, nothing but the
\* removal of the work directory follows in the log (no second request of
\* the URL, no later URL, no concatenation, no mux, no move), and the call
\* ends by raising the error, not by returning the output path.
C17_DownloadFailureEndsCall ==
    prog = "parse_dash" =>
        \A i \in DOMAIN log :
            (log[i].op = "download" /\ log[i].response # "ok") =>
                /\ \A j \in DOMAIN log : j > i => log[j].op = "rmtree"
                /\ pc \in {"finally", "done"}
                /\ loc.pending = [raise |-> IF log[i].response = "status"
                                            THEN "HTTPError" ELSE "ConnectionError"]
                /\ log[i].dst \notin files
                /\ Ended => result = loc.pending

\* the second audio segment answered with a non-success status after the
\* video track was joined: the call raised, with no later download or run
C17_Witness ==
    /\ prog = "parse_dash" /\ Ended
    /\ Len(loc.video_urls) = 2 /\ Len(loc.audio_urls) = 3
    /\ Ops = <<"mkdtemp", "download", "download", "concat", "download", "download", "rmtree">>
    /\ log[6].response = "status" /\ log[6].url = loc.audio_urls[2]
    /\ result = [raise |-> "HTTPError"]

\* ------------------------------------------------------------- C18
\* a parse_dash call whose video resolved to no URL and whose audio
\* resolved to one URL or more, and which has ended
AudioOnlyEnded ==
    /\ prog = "parse_dash" /\ Ended /\ loc.tmpdir # ""
    /\ loc.video_urls = <<>> /\ Len(loc.audio_urls) >= 1

\* every audio segment downloaded, in order, and the audio track
\* concatenated, once
AudioJoined ==
    /\ Len(Downloads) = Len(loc.audio_urls)
    /\ \A k \in DOMAIN Downloads :
          Downloads[k].url = loc.audio_urls[k] /\ Downloads[k].response = "ok"
    /\ Len(Concats) = 1 /\ Concats[1].track = "audio"

\* no mux and no move was made and there is no file at the output path
NoOutput ==
    /\ Count("mux") = 0 /\ Count("move") = 0
    /\ loc.output_path \notin files

\* the call produced a video file: the one download of the fast path, or
\* the file of the video track of the multi-segment path
VideoProduced ==
    \/ loc.vfile # NoPath
    \/ \E i \in DOMAIN log : /\ log[i].op = "download" /\ log[i].response = "ok"
                             /\ log[i].dst = Tmp("video.mp4")

\* C18 as stated: such a call has downloaded every audio segment and run
\* the audio concatenation, and has raised the assembly error; it made no
\* mux and no output file, and its work directory is gone.  And a call
\* returns the output path only if it produced a video file.
C18_Original ==
    /\ AudioOnlyEnded =>
          /\ AudioJoined
          /\ result = [raise |-> "RuntimeError: Could not assemble media files from dash object"]
          /\ NoOutput
          /\ loc.tmpdir \notin dirs
    /\ (prog = "parse_dash" /\ Returned) => VideoProduced

\* C18 amended: such a call makes no mux and no output file and never
\* returns; when none of its audio downloads failed it has downloaded
\* every audio segment, run the audio concatenation and raised the
\* assembly error, and otherwise it raised the download error; the removal
\* of its work directory was attempted, and the directory is gone unless
\* that removal failed.  And a call returns the output path only if it
\* produced a video file.
C18_AudioAloneFails ==
    /\ AudioOnlyEnded =>
          /\ NoOutput
          /\ IF DownloadsOk
             THEN /\ AudioJoined
                  /\ result = [raise |-> "RuntimeError: Could not assemble media files from dash object"]
             ELSE /\ Count("concat") = 0
                  /\ result \in {[raise |-> "HTTPError"], [raise |-> "ConnectionError"]}
          /\ log[Len(log)].op = "rmtree" /\ log[Len(log)].dir = loc.tmpdir
          /\ log[Len(log)].removed => loc.tmpdir \notin dirs
    /\ (prog = "parse_dash" /\ Returned) => VideoProduced

\* two audio segments downloaded and joined with no video: the assembly
\* error, no output, the work directory removed
C18_Witness ==
    /\ AudioOnlyEnded /\ Len(loc.audio_urls) = 2
    /\ Ops = <<"mkdtemp", "download", "download", "concat", "rmtree">>
    /\ result = [raise |-> "RuntimeError: Could not assemble media files from dash object"]
    /\ loc.tmpdir \notin dirs /\ files = {}

\* ------------------------------------------------------------- C11
\* the running call as the waiting one is kept
Running == [pc |-> pc, loc |-> loc, result |-> result, log |-> log]

\* the call c has made its work directory and has not ended
Live(c) == c.loc.tmpdir # "" /\ c.pc # "done"

\* whatever the call c has made, downloaded, read for a concatenation or a
\* mux, moved or removed is its own work directory or a file in it
OwnWorkAreaOnly(c) ==
    \A i \in DOMAIN c.log :
        LET e == c.log[i]
            d == c.loc.tmpdir
        IN  /\ e.op \in {"mkdtemp", "rmtree"} => e.dir = d
            /\ e.op = "download" => e.dst[1] = d
            /\ e.op = "concat" =>
                  /\ e.dst[1] = d
                  /\ \A k \in DOMAIN e.manifest : e.manifest[k][1] = d
            /\ e.op = "mux" => e.video[1] = d /\ e.audio[1] = d
            /\ e.op = "move" => e.src[1] = d

\* the files the call c has downloaded and the track files it is to pass
\* to the mux, but for the one it has moved out itself
Held(c) ==
    ({c.log[i].dst : i \in {j \in DOMAIN c.log : /\ c.log[j].op = "download"
                                                 /\ c.log[j].response = "ok"}}
        \cup ({c.loc.vfile, c.loc.afile} \ {NoPath}))
    \ {c.log[i].src : i \in {j \in DOMAIN c.log : c.log[j].op = "move"}}

\* C11: of two parse_dash calls running at the same time with the same
\* arguments, the two that are live never have the same work directory;
\* each keeps its intermediate files in its own; and while a call is live
\* its work directory and every file it has downloaded or is to pass to
\* the mux are there, whatever the other call has removed.
C11_PrivateWorkAreas ==
    (prog = "parse_dash" /\ other # <<>>) =>
        /\ (Live(Running) /\ Live(other)) => loc.tmpdir # other.loc.tmpdir
        /\ \A c \in {Running, other} :
              /\ OwnWorkAreaOnly(c)
              /\ Live(c) => (c.loc.tmpdir \in dirs /\ Held(c) \subseteq files)

\* one call has downloaded, muxed and removed its work directory; the
\* other, about to run its mux, still has its two downloads
C11_Witness ==
    /\ prog = "parse_dash" /\ other # <<>>
    /\ pc = "done" /\ log[Len(log)].op = "rmtree" /\ log[Len(log)].removed
    /\ Count("download") = 2 /\ loc.tmpdir \notin dirs
    /\ other.pc = "fast_mux" /\ other.loc.tmpdir \in dirs
    /\ Held(other) = {<<other.loc.tmpdir, "video.mp4">>, <<other.loc.tmpdir, "audio.m4a">>}
    /\ Held(other) \subseteq files

=============================================================================
